---- MODULE Spec2Model ----
(***************************************************************************)
(* A model of AppComponent (src/src/app.component.ts): the form state held *)
(* in signals, the three input handlers, and generateBanners, the async    *)
(* handler that fans one generateBannerImage call out per banner format,   *)
(* joins them with Promise.allSettled and aggregates the outcomes.         *)
(*                                                                         *)
(* JavaScript runs each synchronous stretch of a handler to completion, so *)
(* generateBanners is cut at its statements and pc is its position; the    *)
(* other handlers and the settlement of service promises are enabled only  *)
(* when no stretch is running (CallStackEmpty).                            *)
(***************************************************************************)
EXTENDS Integers, Sequences, FiniteSets, TLC

\* Bounds of the exploration.
MaxEdits == 1       \* input actions (updateDescription, updateUrl, selectTemplate)
MaxOrphans == 1     \* calls in flight that a round abandoned by a throw left behind

\* string | null: null is the empty option, a string s is <<s>>.
Null == <<>>
Some(s) == <<s>>

\* A text that is trimmed is a sequence of characters.
WhiteSpace == {" ", "\t", "\n"}

RECURSIVE TrimStart(_)
TrimStart(s) ==
    IF s = <<>> THEN <<>>
    ELSE IF Head(s) \in WhiteSpace THEN TrimStart(Tail(s)) ELSE s

RECURSIVE TrimEnd(_)
TrimEnd(s) ==
    IF s = <<>> THEN <<>>
    ELSE IF s[Len(s)] \in WhiteSpace THEN TrimEnd(SubSeq(s, 1, Len(s) - 1)) ELSE s

\* String.prototype.trim
Trim(s) == TrimEnd(TrimStart(s))

InitialDescription == <<
    "A", " ", "h", "i", "g", "h", "-", "p", "e", "r", "f", "o", "r", "m",
    "a", "n", "c", "e", " ", "e", "l", "e", "c", "t", "r", "i", "c", " ",
    "m", "o", "u", "n", "t", "a", "i", "n", " ", "b", "i", "k", "e", " ",
    "w", "i", "t", "h", " ", "a", " ", "s", "l", "e", "e", "k", " ", "c",
    "a", "r", "b", "o", "n", " ", "f", "i", "b", "e", "r", " ", "f", "r",
    "a", "m", "e", ",", " ", "l", "o", "n", "g", "-", "l", "a", "s", "t",
    "i", "n", "g", " ", "b", "a", "t", "t", "e", "r", "y", ",", " ", "a",
    "n", "d", " ", "a", "l", "l", "-", "t", "e", "r", "r", "a", "i", "n",
    " ", "t", "i", "r", "e", "s", "." >>

InitialUrl == "www.electricbikes.com/peak-rider-x"

designTemplates == <<
    [ name |-> "Minimalist & Clean",
      description |-> "Focus on whitespace, simplicity, and the core product.",
      icon |-> "M3.75 6A2.25 2.25 0 001.5 8.25v7.5A2.25 2.25 0 003.75 18h16.5A2.25 2.25 0 0022.5 15.75v-7.5A2.25 2.25 0 0020.25 6H3.75z",
      promptFragment |-> "The design style must be minimalist and clean. Emphasize negative space, use a simple and muted color palette, and focus on the product as the single hero element. The overall feeling should be modern, airy, and sophisticated." ],
    [ name |-> "Bold & Vibrant",
      description |-> "Use energetic colors and dynamic layouts to grab attention.",
      icon |-> "M3.75 13.5l10.5-11.25L12 10.5h8.25L9.75 21.75 12 13.5H3.75z",
      promptFragment |-> "The design style must be bold and vibrant. Use a high-contrast, energetic color palette with dynamic shapes and a layout that creates a sense of excitement and movement. The ad should be eye-catching and demand attention." ],
    [ name |-> "Elegant & Luxurious",
      description |-> "Sophisticated look with premium textures and refined fonts.",
      icon |-> "M9.813 15.904L9 18.75l-.813-2.846a4.5 4.5 0 00-3.09-3.09L2.25 12l2.846-.813a4.5 4.5 0 003.09-3.09L9 5.25l.813 2.846a4.5 4.5 0 003.09 3.09L15.75 12l-2.846.813a4.5 4.5 0 00-3.09 3.09z",
      promptFragment |-> "The design style must be elegant and luxurious. Use a rich, sophisticated color palette (like deep blues, golds, or silvers), premium textures (like marble or silk), and a sense of classic, high-end design. The product should look aspirational and premium." ],
    [ name |-> "Futuristic & Techy",
      description |-> "Sleek, modern aesthetic with neon accents and abstract graphics.",
      icon |-> "M8.25 3v1.5M4.5 8.25H3m18 0h-1.5M4.5 12H3m18 0h-1.5m-15 3.75H3m18 0h-1.5M8.25 19.5V21M12 3v1.5m0 15V21m3.75-18v1.5m0 15V21m-9-1.5h10.5a2.25 2.25 0 002.25-2.25V8.25a2.25 2.25 0 00-2.25-2.25H8.25a2.25 2.25 0 00-2.25 2.25v7.5a2.25 2.25 0 002.25 2.25z",
      promptFragment |-> "The design style must be futuristic and tech-focused. Incorporate elements like glowing neon lines, abstract digital patterns, dark backgrounds with bright accents, and a sleek, high-tech aesthetic. The ad should feel innovative and cutting-edge." ] >>

bannerFormats == <<
    [ name |-> "Leaderboard / Banner", aspectRatio |-> "16:9", description |-> "Wide format for top of page" ],
    [ name |-> "Medium Rectangle", aspectRatio |-> "4:3", description |-> "Versatile, common format" ],
    [ name |-> "Square", aspectRatio |-> "1:1", description |-> "Ideal for social media feeds" ],
    [ name |-> "Portrait", aspectRatio |-> "3:4", description |-> "Vertical format for sidebars" ],
    [ name |-> "Skyscraper", aspectRatio |-> "9:16", description |-> "Tall format for mobile screens" ] >>

\* this.bannerFormats.length
N == Len(bannerFormats)

\* The values the environment supplies.
Descriptions == { <<>>, <<" ", "\t">>, <<" ", "e", "-", "b", "i", "k", "e", "\n">> }
Urls == { "shop.example/e-bike" }
Templates == { designTemplates[1], designTemplates[3] }
\* The service answers a call with the image of the aspect ratio it was given.
ImageUrl(aspectRatio) ==
    "data:image/png;ratio=" \o aspectRatio
Reasons == { "quota exceeded" }
\* What a synchronous failure of the dispatch throws: an Error, or any other value.
Thrown == { [ instanceOfError |-> TRUE, message |-> "API key is not configured" ],
            [ instanceOfError |-> FALSE, message |-> "" ] }

VARIABLES
    productDescription,   \* signal: the description text
    productUrl,           \* signal: the URL text
    generatedBanners,     \* signal: the displayed banners
    isLoading,            \* signal: the in-progress flag
    error,                \* signal: string | null
    selectedTemplate,     \* signal: the selected design template
    pc,                   \* position of the accepted generateBanners call
    basePrompt,           \* local of generateBanners
    bannerPromises,       \* local of generateBanners; after the join, its results
    successfulBanners,    \* local of generateBanners
    caught,               \* the value bound to e in the catch clause
    inFlight,             \* the service's calls that have not settled yet, each
                          \* with its identity and the aspectRatio it was given
    edits,                \* number of input actions
    lastOp                \* the handler or step that ran last

vars == << productDescription, productUrl, generatedBanners, isLoading, error,
           selectedTemplate, pc, basePrompt, bannerPromises, successfulBanners,
           caught, inFlight, edits, lastOp >>

signals == << productDescription, productUrl, generatedBanners, isLoading, error,
              selectedTemplate >>
locals == << pc, basePrompt, bannerPromises, successfulBanners, caught >>

Init ==
    /\ productDescription = InitialDescription
    /\ productUrl = InitialUrl
    /\ generatedBanners = <<>>
    /\ isLoading = FALSE
    /\ error = Null
    /\ selectedTemplate = designTemplates[1]
    /\ pc = "idle"
    /\ basePrompt = Null
    /\ bannerPromises = <<>>
    /\ successfulBanners = <<>>
    /\ caught = Null
    /\ inFlight = {}
    /\ edits = 0
    /\ lastOp = "constructor"

----------------------------------------------------------------------------
\* A join that resolves on the first rejection, as Promise.all does.
FirstRejectionOrAll(promises) ==
    \/ \E i \in 1..Len(promises) : promises[i].status = "rejected"
    \/ \A i \in 1..Len(promises) : promises[i].status = "fulfilled"

\* Promise.allSettled(bannerPromises) resolves when no promise is pending.
AllSettled(promises) ==
    \A i \in 1..Len(promises) : promises[i].status # "pending"

\* A loop that awaits each call before it issues the next: the loop is
\* suspended between its iterations.
CallStackEmptyAwaitInLoop ==
    \/ pc = "idle"
    \/ pc = "map"
    \/ pc = "await" /\ ~AllSettled(bannerPromises)

\* No synchronous stretch is running and no continuation is due: an event
\* handler or the settlement of a service promise may run.
CallStackEmpty ==
    \/ pc = "idle"
    \/ pc = "await" /\ ~AllSettled(bannerPromises)

\* A handler that also clears the error when the description is edited.
updateDescriptionClearsError(value) ==
    /\ CallStackEmpty
    /\ edits < MaxEdits
    /\ productDescription' = value
    /\ error' = Null
    /\ edits' = edits + 1
    /\ lastOp' = "updateDescription"
    /\ UNCHANGED << productUrl, generatedBanners, isLoading, selectedTemplate,
                    locals, inFlight >>

updateDescription(value) ==
    /\ CallStackEmpty
    /\ edits < MaxEdits
    /\ productDescription' = value
    /\ edits' = edits + 1
    /\ lastOp' = "updateDescription"
    /\ UNCHANGED << productUrl, generatedBanners, isLoading, error, selectedTemplate,
                    locals, inFlight >>

updateUrl(value) ==
    /\ CallStackEmpty
    /\ edits < MaxEdits
    /\ productUrl' = value
    /\ edits' = edits + 1
    /\ lastOp' = "updateUrl"
    /\ UNCHANGED << productDescription, generatedBanners, isLoading, error,
                    selectedTemplate, locals, inFlight >>

selectTemplate(template) ==
    /\ CallStackEmpty
    /\ edits < MaxEdits
    /\ selectedTemplate' = template
    /\ edits' = edits + 1
    /\ lastOp' = "selectTemplate"
    /\ UNCHANGED << productDescription, productUrl, generatedBanners, isLoading, error,
                    locals, inFlight >>

----------------------------------------------------------------------------
\* A guard that forgets the in-progress flag.
GuardIgnoresLoading ==
    Trim(productDescription) = <<>>

\* A guard that tests the description without trimming it.
GuardWithoutTrim ==
    isLoading \/ productDescription = <<>>

\* The guard of generateBanners: true when the invocation returns at once.
GuardSkips ==
    isLoading \/ Trim(productDescription) = <<>>

\* A basePrompt that always embeds the fragment of the first template.
BasePromptOfDefaultTemplate(description, url, template) ==
    [ description |-> description, url |-> url,
      style |-> designTemplates[1].promptFragment ]

\* The template literal of basePrompt: its three interpolated values.
BasePrompt(description, url, template) ==
    [ description |-> description, url |-> url, style |-> template.promptFragment ]

\* The prompt of one format: basePrompt, then the format's ratio and name.
Prompt(base, format) ==
    [ base |-> base, aspectRatio |-> format.aspectRatio, name |-> format.name ]

\* A callback that reads the format after the loop has ended: the last one.
ThenBannerLateBound(imageUrl, format) ==
    [ imageUrl |-> imageUrl, aspectRatio |-> bannerFormats[Len(bannerFormats)].aspectRatio,
      name |-> bannerFormats[Len(bannerFormats)].name ]

\* The callback of .then: the Banner of a fulfilled call.
ThenBanner(imageUrl, format) ==
    [ imageUrl |-> imageUrl, aspectRatio |-> format.aspectRatio, name |-> format.name ]

\* An acceptance that leaves the previous error in place.
KeepsError(current) == current

\* this.error.set(null) on acceptance.
AcceptedError(current) == Null

\* An acceptance that leaves the previous banners in place.
KeepsBanners(current) == current

\* this.generatedBanners.set([]) on acceptance.
AcceptedBanners(current) == <<>>

\* generateBanners is invoked: the guard and, if it passes, the statements up
\* to the try block.
generateBanners ==
    /\ CallStackEmpty
    /\ lastOp' = "generateBanners"
    /\ IF GuardSkips
       THEN UNCHANGED << signals, locals, inFlight, edits >>
       ELSE /\ isLoading' = TRUE
            /\ error' = AcceptedError(error)
            /\ generatedBanners' = AcceptedBanners(generatedBanners)
            /\ basePrompt' = Some(BasePrompt(productDescription, productUrl, selectedTemplate))
            /\ bannerPromises' = <<>>
            /\ successfulBanners' = <<>>
            /\ caught' = Null
            /\ pc' = "map"
            /\ UNCHANGED << productDescription, productUrl, selectedTemplate, inFlight, edits >>

\* The identity of a new call: the least number no call in flight bears.
FreshId ==
    CHOOSE n \in 1..(Cardinality(inFlight) + 1) :
        /\ \A c \in inFlight : c.id # n
        /\ \A m \in 1..(n - 1) : \E c \in inFlight : c.id = m

\* One iteration of bannerFormats.map: the call is issued and its promise,
\* chained with .then, joins the array.
Dispatch ==
    /\ pc = "map"
    /\ Len(bannerPromises) < N
    /\ LET format == bannerFormats[Len(bannerPromises) + 1]
           call == [ id |-> FreshId, aspectRatio |-> format.aspectRatio ]
       IN /\ inFlight' = inFlight \cup {call}
          /\ bannerPromises' = Append(bannerPromises,
                 [ call |-> call, prompt |-> Prompt(basePrompt[1], format),
                   format |-> format, status |-> "pending",
                   returned |-> Null, value |-> Null ])
    /\ lastOp' = "dispatch"
    /\ UNCHANGED << signals, pc, basePrompt, successfulBanners, caught, edits >>

\* generateBannerImage throws instead of returning a promise: map is abandoned
\* and control passes to the catch clause; the calls already issued stay in
\* flight.
DispatchThrows(e) ==
    /\ pc = "map"
    /\ Len(bannerPromises) < N
    /\ Cardinality(inFlight) <= MaxOrphans
    /\ caught' = Some(e)
    /\ bannerPromises' = <<>>
    /\ pc' = "catch"
    /\ lastOp' = "throw"
    /\ UNCHANGED << signals, basePrompt, successfulBanners, inFlight, edits >>

\* await Promise.allSettled(bannerPromises): generateBanners suspends.
Await ==
    /\ pc = "map"
    /\ Len(bannerPromises) = N
    /\ pc' = "await"
    /\ lastOp' = "await"
    /\ UNCHANGED << signals, basePrompt, bannerPromises, successfulBanners, caught,
                    inFlight, edits >>

\* A call of the service settles. If its promise is one the suspended round
\* waits for, the promise settles with it (a Banner through .then, or the
\* reason); the calls of an abandoned round settle unobserved.
Settled(promise, fulfilled, outcome) ==
    IF fulfilled
    THEN [ promise EXCEPT !.status = "fulfilled", !.returned = Some(outcome),
                          !.value = Some(ThenBanner(outcome, promise.format)) ]
    ELSE [ promise EXCEPT !.status = "rejected", !.returned = Some(outcome) ]

Settle(call, fulfilled, outcome) ==
    /\ CallStackEmpty
    /\ call \in inFlight
    /\ inFlight' = inFlight \ {call}
    /\ bannerPromises' =
           [ i \in 1..Len(bannerPromises) |->
               IF bannerPromises[i].call = call
               THEN Settled(bannerPromises[i], fulfilled, outcome)
               ELSE bannerPromises[i] ]
    /\ lastOp' = "settle"
    /\ UNCHANGED << signals, pc, basePrompt, successfulBanners, caught, edits >>

\* A loop that stops at the first rejected result.
RECURSIVE ForEachUntilRejected(_, _)
ForEachUntilRejected(results, acc) ==
    IF results = <<>> THEN acc
    ELSE IF Head(results).status = "fulfilled"
         THEN ForEachUntilRejected(Tail(results), Append(acc, Head(results).value[1]))
         ELSE acc

\* A forEach that puts each fulfilled value in front (unshift).
RECURSIVE ForEachUnshift(_, _)
ForEachUnshift(results, acc) ==
    IF results = <<>> THEN acc
    ELSE ForEachUnshift(Tail(results),
                        IF Head(results).status = "fulfilled"
                        THEN <<Head(results).value[1]>> \o acc
                        ELSE acc)

\* results.forEach: the values of the fulfilled results, pushed in array order.
RECURSIVE ForEachPush(_, _)
ForEachPush(results, acc) ==
    IF results = <<>> THEN acc
    ELSE ForEachPush(Tail(results),
                     IF Head(results).status = "fulfilled"
                     THEN Append(acc, Head(results).value[1])
                     ELSE acc)

\* The join has resolved: generateBanners resumes, collects the fulfilled
\* results and sets generatedBanners.
Aggregate ==
    /\ pc = "await"
    /\ AllSettled(bannerPromises)
    /\ successfulBanners' = ForEachPush(bannerPromises, <<>>)
    /\ generatedBanners' = successfulBanners'
    /\ pc' = "summary"
    /\ lastOp' = "aggregate"
    /\ UNCHANGED << productDescription, productUrl, isLoading, error, selectedTemplate,
                    basePrompt, bannerPromises, caught, inFlight, edits >>

\* A message that counts the failures instead of the successes.
SummaryMessageOfFailures(successful, total) ==
    "Could not generate all banner formats. Only " \o ToString(total - successful)
        \o " of " \o ToString(total) \o " were successful."

\* The message of the summary error.
SummaryMessage(successful, total) ==
    "Could not generate all banner formats. Only " \o ToString(successful)
        \o " of " \o ToString(total) \o " were successful."

\* A summary that is set for a partial failure only, not when nothing succeeded.
SummaryErrorOnlyPartial(banners, current) ==
    IF 0 < Len(banners) /\ Len(banners) < N
    THEN Some(SummaryMessage(Len(banners), N)) ELSE current

\* The error generateBanners sets when fewer banners than formats succeeded.
SummaryError(banners, current) ==
    IF Len(banners) < N THEN Some(SummaryMessage(Len(banners), N)) ELSE current

Summary ==
    /\ pc = "summary"
    /\ error' = SummaryError(successfulBanners, error)
    /\ pc' = "finally"
    /\ lastOp' = "summary"
    /\ UNCHANGED << productDescription, productUrl, generatedBanners, isLoading,
                    selectedTemplate, basePrompt, bannerPromises, successfulBanners,
                    caught, inFlight, edits >>

\* A catch clause that shows the generic message whatever was thrown.
CatchMessageAlwaysGeneric(e) ==
    "An unknown error occurred during generation."

\* The error of the catch clause.
CatchMessage(e) ==
    IF e.instanceOfError THEN e.message
    ELSE "An unknown error occurred during generation."

\* A catch clause that only logs.
CatchLogsOnly(e, current) == current

\* The catch clause: this.error.set(...).
CatchError(e, current) == Some(CatchMessage(e))

\* A catch clause that returns: the flag is cleared at the end of the try block
\* only.
CatchThenReturn == "idle"

\* Where control goes after the catch clause: the finally clause.
AfterCatch == "finally"

Catch ==
    /\ pc = "catch"
    /\ error' = CatchError(caught[1], error)
    /\ pc' = AfterCatch
    /\ lastOp' = "catch"
    /\ UNCHANGED << productDescription, productUrl, generatedBanners, isLoading,
                    selectedTemplate, basePrompt, bannerPromises, successfulBanners,
                    caught, inFlight, edits >>

\* The finally clause; generateBanners returns and its locals are gone.
Finally ==
    /\ pc = "finally"
    /\ isLoading' = FALSE
    /\ pc' = "idle"
    /\ basePrompt' = Null
    /\ bannerPromises' = <<>>
    /\ successfulBanners' = <<>>
    /\ caught' = Null
    /\ lastOp' = "finally"
    /\ UNCHANGED << productDescription, productUrl, generatedBanners, error,
                    selectedTemplate, inFlight, edits >>

----------------------------------------------------------------------------
UpdateDescriptionEvent == \E value \in Descriptions : updateDescription(value)
UpdateUrlEvent == \E value \in Urls : updateUrl(value)
SelectTemplateEvent ==
    \E template \in Templates : selectTemplate(template)
DispatchThrowsStep == \E e \in Thrown : DispatchThrows(e)
Fulfil == \E call \in inFlight : Settle(call, TRUE, ImageUrl(call.aspectRatio))
Reject == \E call \in inFlight, reason \in Reasons : Settle(call, FALSE, reason)

Next ==
    \/ UpdateDescriptionEvent
    \/ UpdateUrlEvent
    \/ SelectTemplateEvent
    \/ generateBanners
    \/ Dispatch
    \/ DispatchThrowsStep
    \/ Await
    \/ Fulfil
    \/ Reject
    \/ Aggregate
    \/ Summary
    \/ Catch
    \/ Finally

Spec == Init /\ [][Next]_vars

\* The steps the event loop takes on its own: a synchronous stretch runs to
\* its end, a resolved join resumes its awaiter, and every call of the
\* service settles in the end.
RoundStep ==
    \/ Dispatch
    \/ DispatchThrowsStep
    \/ Await
    \/ Fulfil
    \/ Reject
    \/ Aggregate
    \/ Summary
    \/ Catch
    \/ Finally

FairSpec == Spec /\ WF_vars(RoundStep)

----------------------------------------------------------------------------
\* The promises of the round in progress, by status.
WithStatus(status) ==
    { i \in 1..Len(bannerPromises) : bannerPromises[i].status = status }

\* The description is empty once trimmed: it holds nothing but white space.
Blank(description) ==
    \A i \in 1..Len(description) : description[i] \in WhiteSpace

\* The messages of the summary error for 0..4 successes, word for word.
ExpectedSummary == <<
    "Could not generate all banner formats. Only 0 of 5 were successful.",
    "Could not generate all banner formats. Only 1 of 5 were successful.",
    "Could not generate all banner formats. Only 2 of 5 were successful.",
    "Could not generate all banner formats. Only 3 of 5 were successful.",
    "Could not generate all banner formats. Only 4 of 5 were successful." >>

\* The aspect ratios in the order of configuration.
ConfiguredOrder == << "16:9", "4:3", "1:1", "3:4", "9:16" >>
PositionOf(aspectRatio) ==
    CHOOSE k \in 1..Len(ConfiguredOrder) : ConfiguredOrder[k] = aspectRatio

\* generateBanners returns: the step that ends a round.
RoundEnds == pc = "finally" /\ pc' = "idle"
\* ... of a round whose N calls were all dispatched and joined.
JoinedRoundEnds == RoundEnds /\ Len(bannerPromises) = 5

\* C1: the result of a round (generatedBanners, the summary error) is written
\* only after every one of the N dispatched calls has settled: while a promise
\* of the round is pending no step changes generatedBanners or error or
\* starts the aggregation, and the aggregation starts with all N settled and
\* none of their calls in flight.
C1_AggregationAfterAllSettled ==
    [][ /\ (WithStatus("pending") # {}) =>
              /\ generatedBanners' = generatedBanners
              /\ error' = error
              /\ pc' # "summary"
        /\ (pc # "summary" /\ pc' = "summary") =>
              /\ Len(bannerPromises) = 5
              /\ WithStatus("fulfilled") \cup WithStatus("rejected") = 1..5
              /\ \A i \in 1..5 : bannerPromises[i].call \notin inFlight
      ]_vars

\* C1 witness: the aggregation has run on a round in which calls were rejected
\* and calls were fulfilled.
C1_Witness ==
    /\ lastOp = "aggregate"
    /\ WithStatus("rejected") # {}
    /\ WithStatus("fulfilled") # {}
    /\ Len(generatedBanners) = Cardinality(WithStatus("fulfilled"))

\* C2: generateBanners invoked while isLoading is true changes nothing: the six
\* signals keep their values, no call is dispatched, and the round in progress
\* keeps its position and its promises.
C2_NoOpWhileLoading ==
    [][ (lastOp' = "generateBanners" /\ isLoading) =>
            UNCHANGED << isLoading, error, generatedBanners, selectedTemplate,
                         productDescription, productUrl, inFlight, locals >>
      ]_vars

\* C2 witness: generateBanners has been invoked in the middle of a round, with
\* calls settled and calls pending.
C2_Witness ==
    /\ lastOp = "generateBanners"
    /\ isLoading
    /\ pc = "await"
    /\ WithStatus("pending") # {}
    /\ WithStatus("fulfilled") # {}

\* C3: generateBanners invoked with a description that is empty once trimmed
\* changes nothing: isLoading does not flip, error and generatedBanners are
\* not cleared, and no call is dispatched.
C3_NoOpOnBlankDescription ==
    [][ (lastOp' = "generateBanners" /\ Blank(productDescription)) =>
            UNCHANGED << signals, inFlight, locals >>
      ]_vars

\* C3 witness: generateBanners has been invoked on a white-space description
\* after a round that left banners and an error.
C3_Witness ==
    /\ lastOp = "generateBanners"
    /\ ~isLoading
    /\ productDescription # <<>>
    /\ Blank(productDescription)
    /\ error # Null
    /\ generatedBanners # <<>>


\* C4: every accepted round ends with isLoading false, whichever way it ends:
\* given that the event loop runs and every call settles, isLoading true leads
\* to isLoading false, and in the state generateBanners returns in, isLoading
\* is false and no round is in progress.
C4_LoadingAlwaysCleared ==
    /\ isLoading ~> ~isLoading
    /\ [](lastOp = "finally" => (~isLoading /\ pc = "idle"))

\* C4 witness: a round whose dispatch threw a value that is no Error has
\* ended, with isLoading false.
C4_Witness ==
    /\ lastOp = "finally"
    /\ ~isLoading
    /\ generatedBanners = <<>>
    /\ error = Some("An unknown error occurred during generation.")

\* C5: when a round ends in which k < 5 of the 5 calls were fulfilled,
\* generatedBanners has k elements and error is "Could not generate all banner
\* formats. Only k of 5 were successful.".
C5_PartialFailureSummary ==
    [][ (JoinedRoundEnds /\ Cardinality(WithStatus("fulfilled")) < 5) =>
            /\ Len(generatedBanners') = Cardinality(WithStatus("fulfilled"))
            /\ error' = Some(ExpectedSummary[Cardinality(WithStatus("fulfilled")) + 1])
      ]_vars

\* C5 witness: the round in which "Square" and "Skyscraper" were rejected and
\* the three others fulfilled is about to return with 3 banners and the
\* message for 3 of 5.
C5_Witness ==
    /\ pc = "finally"
    /\ WithStatus("rejected") = {3, 5}
    /\ WithStatus("fulfilled") = {1, 2, 4}
    /\ Len(generatedBanners) = 3
    /\ error = Some("Could not generate all banner formats. Only 3 of 5 were successful.")

\* C6: when a round ends in which all 5 calls were fulfilled, generatedBanners
\* has 5 elements and error is null, whatever the round before had left.
C6_FullSuccess ==
    [][ (JoinedRoundEnds /\ WithStatus("fulfilled") = 1..5) =>
            /\ Len(generatedBanners') = 5
            /\ error' = Null
      ]_vars

\* C6 witness: a round with all 5 calls fulfilled is about to return.
C6_Witness ==
    /\ pc = "finally"
    /\ WithStatus("fulfilled") = 1..5
    /\ Len(generatedBanners) = 5
    /\ error = Null

\* C7: the banners of generatedBanners stand in the order of their formats in
\* bannerFormats (16:9, 4:3, 1:1, 3:4, 9:16), in whichever order the calls
\* settled.
C7_ConfigurationOrder ==
    \A i, j \in 1..Len(generatedBanners) :
        i < j => PositionOf(generatedBanners[i].aspectRatio)
                     < PositionOf(generatedBanners[j].aspectRatio)

\* C7 witness: a round has ended with three banners, the first and the last
\* format among them.
C7_Witness ==
    /\ lastOp = "finally"
    /\ Len(generatedBanners) = 3
    /\ generatedBanners[1].aspectRatio = "16:9"
    /\ generatedBanners[3].aspectRatio = "9:16"

\* C8: every banner of generatedBanners, and every value of a fulfilled
\* promise, has the aspectRatio and the name of one configured format and the
\* image the service returned to the call made with that ratio; no format
\* gives two banners.
C8_NoMislabeling ==
    /\ \A i \in 1..Len(generatedBanners) :
           \E k \in 1..Len(bannerFormats) :
               /\ generatedBanners[i].aspectRatio = bannerFormats[k].aspectRatio
               /\ generatedBanners[i].name = bannerFormats[k].name
               /\ generatedBanners[i].imageUrl = ImageUrl(bannerFormats[k].aspectRatio)
    /\ \A i, j \in 1..Len(generatedBanners) :
           i # j => generatedBanners[i].aspectRatio # generatedBanners[j].aspectRatio
    /\ \A i \in WithStatus("fulfilled") :
           /\ bannerPromises[i].call.aspectRatio = bannerFormats[i].aspectRatio
           /\ bannerPromises[i].value[1].imageUrl = bannerPromises[i].returned[1]
           /\ bannerPromises[i].value[1].aspectRatio = bannerFormats[i].aspectRatio
           /\ bannerPromises[i].value[1].name = bannerFormats[i].name

\* C8 witness: a round has ended with the banners of all five formats.
C8_Witness ==
    /\ lastOp = "finally"
    /\ Len(generatedBanners) = 5

\* C9: generatedBanners never has more than 5 elements, and when a round ends
\* it holds exactly the values of the calls fulfilled in that round, one
\* each: none of a rejected call, none of an earlier round (none at all when
\* the dispatch threw).
C9_OnlyThisRoundsSuccesses ==
    /\ Len(generatedBanners) <= 5
    /\ [][ /\ Len(generatedBanners') <= 5
           /\ RoundEnds =>
                 /\ Len(generatedBanners') = Cardinality(WithStatus("fulfilled"))
                 /\ \A n \in 1..Len(generatedBanners') :
                        \E i \in WithStatus("fulfilled") :
                            bannerPromises[i].value = Some(generatedBanners'[n])
         ]_vars

\* C9 witness: a round in which only the call of "Portrait" was fulfilled is
\* about to return with that one banner.
C9_Witness ==
    /\ pc = "finally"
    /\ WithStatus("fulfilled") = {4}
    /\ WithStatus("rejected") = {1, 2, 3, 5}
    /\ Len(generatedBanners) = 1
    /\ generatedBanners[1].name = "Portrait"

\* C10: in the state a round ends in, an error is present whenever fewer than
\* 5 banners are displayed; the round whose dispatch threw is such a round.
C10_ErrorWhenIncomplete ==
    lastOp = "finally" => (Len(generatedBanners) < 5 => error # Null)

\* C10 witness: a round whose dispatch threw an Error has ended with no
\* banner and the message of the Error.
C10_Witness ==
    /\ lastOp = "finally"
    /\ generatedBanners = <<>>
    /\ error = Some("API key is not configured")

\* generateBanners returns from a round whose dispatch threw.
ThrownRoundEnds == RoundEnds /\ caught # Null

\* C11: when the dispatch throws, the round ends with error set to the message
\* of the thrown Error, or to "An unknown error occurred during generation."
\* when the thrown value is no Error; generatedBanners is empty, as acceptance
\* left it, and isLoading is false.
C11_DispatchThrowEndsRound ==
    [][ ThrownRoundEnds =>
            /\ caught[1].instanceOfError => error' = Some(caught[1].message)
            /\ ~caught[1].instanceOfError =>
                   error' = Some("An unknown error occurred during generation.")
            /\ generatedBanners' = <<>>
            /\ isLoading' = FALSE
      ]_vars

\* C11 witness: the round whose dispatch threw an Error after a call had been
\* issued is about to return, with the message of the Error and no banner.
C11_Witness ==
    /\ pc = "finally"
    /\ caught = Some([ instanceOfError |-> TRUE, message |-> "API key is not configured" ])
    /\ error = Some("API key is not configured")
    /\ generatedBanners = <<>>
    /\ inFlight # {}

\* C12 as stated: when a round ends in which all requests failed, or whose
\* dispatch threw, generatedBanners is empty and error is the message of the
\* underlying failure (the reason of a rejected call, the message of the
\* thrown Error) or else the generic unknown-error message.
C12_AsStated ==
    [][ (ThrownRoundEnds \/ (JoinedRoundEnds /\ WithStatus("rejected") = 1..5)) =>
            /\ generatedBanners' = <<>>
            /\ \/ error' = Some("An unknown error occurred during generation.")
               \/ caught # Null /\ caught[1].instanceOfError
                     /\ error' = Some(caught[1].message)
               \/ \E i \in WithStatus("rejected") : error' = bannerPromises[i].returned
      ]_vars

\* C12, amended: when a round ends in which all 5 requests failed,
\* generatedBanners is empty and error is the summary "Could not generate all
\* banner formats. Only 0 of 5 were successful."; when a round ends whose
\* dispatch threw, generatedBanners is empty and error is the message of the
\* thrown Error, or else the generic unknown-error message.
C12_TotalFailure ==
    [][ /\ (JoinedRoundEnds /\ WithStatus("rejected") = 1..5) =>
              /\ generatedBanners' = <<>>
              /\ error' = Some("Could not generate all banner formats. Only 0 of 5 were successful.")
        /\ ThrownRoundEnds =>
              /\ generatedBanners' = <<>>
              /\ error' = IF caught[1].instanceOfError
                          THEN Some(caught[1].message)
                          ELSE Some("An unknown error occurred during generation.")
      ]_vars

\* C12 witness: the round in which all five calls were rejected is about to
\* return with no banner and the summary for 0 of 5.
C12_Witness ==
    /\ pc = "finally"
    /\ WithStatus("rejected") = 1..5
    /\ generatedBanners = <<>>
    /\ error = Some("Could not generate all banner formats. Only 0 of 5 were successful.")

\* C13: the rejection of one call is absorbed in the round: the step that
\* rejects it leaves the round waiting, its siblings and error as they were;
\* the catch clause is never entered with a rejected call; the reason never
\* becomes error; and when the round ends every fulfilled sibling is in
\* generatedBanners.
C13_FailureAbsorbed ==
    /\ error = Null
    /\ [][ /\ \A reason \in Reasons : error' # Some(reason)
           /\ pc' = "catch" => WithStatus("rejected") = {}
           /\ \A i \in 1..Len(bannerPromises) :
                  (/\ Len(bannerPromises') = Len(bannerPromises)
                   /\ bannerPromises[i].status = "pending"
                   /\ bannerPromises'[i].status = "rejected") =>
                      /\ pc = "await" /\ pc' = "await"
                      /\ error' = error /\ generatedBanners' = generatedBanners
                      /\ \A j \in 1..Len(bannerPromises) :
                             j # i => bannerPromises'[j] = bannerPromises[j]
           /\ JoinedRoundEnds =>
                  \A i \in WithStatus("fulfilled") :
                      \E n \in 1..Len(generatedBanners') :
                          Some(generatedBanners'[n]) = bannerPromises[i].value
         ]_vars

\* C13 witness: the round in which the first call was rejected and its four
\* siblings fulfilled is about to return with the four banners, the catch
\* clause not entered.
C13_Witness ==
    /\ pc = "finally"
    /\ caught = Null
    /\ WithStatus("rejected") = {1}
    /\ WithStatus("fulfilled") = 2..5
    /\ Len(generatedBanners) = 4
    /\ error = Some("Could not generate all banner formats. Only 4 of 5 were successful.")

\* generateBanners is accepted: the guard passes and the round begins.
RoundBegins == pc = "idle" /\ pc' # "idle"
\* A call of the service is issued.
CallIssued == inFlight' \ inFlight # {}

\* C14: the requests of a round embed the promptFragment of the template
\* selected when the round was accepted, with the description and the URL of
\* that moment, and each the aspect ratio and the name of its own format; all
\* requests of a round carry the same base, which stays as it is while the
\* round runs; the fragments of the templates differ, so another selection
\* before the round gives another fragment in every request.
C14_PromptOfAcceptance ==
    /\ \A a, b \in 1..Len(designTemplates) :
           a # b => designTemplates[a].promptFragment # designTemplates[b].promptFragment
    /\ [][ /\ RoundBegins =>
                 basePrompt' = Some([ description |-> productDescription,
                                      url |-> productUrl,
                                      style |-> selectedTemplate.promptFragment ])
           /\ (pc # "idle" /\ pc' # "idle") => basePrompt' = basePrompt
           /\ \A i \in 1..Len(bannerPromises') :
                  bannerPromises'[i].prompt =
                      [ base |-> basePrompt'[1],
                        aspectRatio |-> bannerFormats[i].aspectRatio,
                        name |-> bannerFormats[i].name ]
         ]_vars

\* C14 witness: "Elegant & Luxurious" was selected before the round, and all
\* five requests in flight carry its fragment.
C14_Witness ==
    /\ pc = "await"
    /\ selectedTemplate = designTemplates[3]
    /\ Len(bannerPromises) = 5
    /\ \A i \in 1..5 :
           bannerPromises[i].prompt.base.style = designTemplates[3].promptFragment

\* C15: acceptance happens with isLoading false and a description that is not
\* blank, and sets isLoading to true, error to null and generatedBanners to
\* the empty list without issuing a call; every call is issued in a state
\* where they have these values.
C15_AcceptanceResets ==
    [][ /\ RoundBegins =>
              /\ ~isLoading
              /\ ~Blank(productDescription)
              /\ pc' = "map"
              /\ isLoading' = TRUE
              /\ error' = Null
              /\ generatedBanners' = <<>>
              /\ inFlight' = inFlight
        /\ CallIssued =>
              /\ isLoading /\ error = Null /\ generatedBanners = <<>>
              /\ isLoading' /\ error' = Null /\ generatedBanners' = <<>>
      ]_vars

\* C15 witness: a round has just been accepted, with isLoading true, error
\* null and no banner, while a call of a round that ended with an error is
\* still in flight.
C15_Witness ==
    /\ lastOp = "generateBanners"
    /\ pc = "map"
    /\ isLoading
    /\ error = Null
    /\ generatedBanners = <<>>
    /\ bannerPromises = <<>>
    /\ inFlight # {}

\* The calls of a round are issued one at a time in the order of
\* configuration, one per format; no settlement is processed before the round
\* waits; and when it starts to wait all 5 calls are in flight at once, none
\* settled.
IssuedInOrderBeforeWaiting ==
    /\ CallIssued =>
          /\ Cardinality(inFlight' \ inFlight) = 1
          /\ Len(bannerPromises') = Len(bannerPromises) + 1
          /\ \A c \in inFlight' \ inFlight :
                 /\ c.aspectRatio = ConfiguredOrder[Len(bannerPromises')]
                 /\ bannerPromises'[Len(bannerPromises')].call = c
          /\ \A i \in 1..Len(bannerPromises') :
                 bannerPromises'[i].status = "pending"
    /\ (pc # "await" /\ pc' = "await") =>
          /\ Len(bannerPromises) = 5
          /\ WithStatus("pending") = 1..5
          /\ Cardinality({ bannerPromises[i].call : i \in 1..5 } \cap inFlight) = 5
    /\ \A i \in 1..Len(bannerPromises) :
           (/\ Len(bannerPromises') = Len(bannerPromises)
            /\ bannerPromises'[i].status # bannerPromises[i].status) =>
               pc = "await" /\ Len(bannerPromises) = 5

\* C16 as stated: every accepted round issues exactly one call per configured
\* format, 5 calls in the order of configuration, all of them before it waits
\* for or processes the settlement of any: the loop of an accepted round is
\* left only for the join, with 5 calls issued.
C16_AsStated ==
    [][ /\ IssuedInOrderBeforeWaiting
        /\ (pc = "map" /\ pc' # "map") =>
               (pc' = "await" /\ Len(bannerPromises) = 5)
      ]_vars

\* C16, amended: an accepted round issues its calls one per configured format
\* in the order of configuration, each before the settlement of any is
\* processed; the loop is left either by a throw of the dispatch, which ends
\* the round without a join, or for the join with exactly 5 calls issued, all
\* in flight at once.
C16_AllIssuedBeforeWaiting ==
    [][ /\ IssuedInOrderBeforeWaiting
        /\ (pc = "map" /\ pc' # "map") =>
               \/ pc' = "await" /\ Len(bannerPromises) = 5
               \/ pc' = "catch" /\ caught' # Null /\ Len(bannerPromises) < 5
      ]_vars

\* C16 witness: the round has just started to wait, its five calls in flight
\* and none settled.
C16_Witness ==
    /\ lastOp = "await"
    /\ pc = "await"
    /\ WithStatus("pending") = 1..5
    /\ Cardinality(inFlight) >= 5

\* The calls in flight that no promise of the round in progress stands for:
\* those of a round that has ended.
Orphans ==
    { c \in inFlight : \A i \in 1..Len(bannerPromises) : bannerPromises[i].call # c }

\* C17: rounds never overlap: a round is accepted only when no call is in
\* flight, and the calls in flight never mix those of the round in progress
\* with those of an earlier round.
C17_NoOverlappingRounds ==
    [][ /\ RoundBegins => inFlight = {}
        /\ ~(Orphans' # {} /\ inFlight' \ Orphans' # {})
      ]_vars

C19_SingleFlipAtEachEnd ==
    /\ (isLoading <=> pc # "idle")
    /\ [][ /\ (isLoading' <=> pc' # "idle")
           /\ isLoading' # isLoading => (RoundBegins \/ RoundEnds)
           /\ RoundBegins => (~isLoading /\ isLoading')
           /\ (pc # "idle" /\ pc' = "idle") => RoundEnds
           /\ RoundEnds =>
                 /\ isLoading /\ ~isLoading'
                 /\ generatedBanners' = generatedBanners
                 /\ error' = error
                 /\ WithStatus("pending") = {}
                 /\ Len(generatedBanners) = Cardinality(WithStatus("fulfilled"))
                 /\ Len(generatedBanners) < 5 => error # Null
         ]_vars

\* C19 witness: a round has ended with two banners and the summary error, and
\* isLoading is false again.
C19_Witness ==
    /\ lastOp = "finally"
    /\ pc = "idle"
    /\ ~isLoading
    /\ Len(generatedBanners) = 2
    /\ error = Some("Could not generate all banner formats. Only 2 of 5 were successful.")

\* The result of a joined round as its outcomes alone determine it.
BannerOfOutcome(i) ==
    [ imageUrl |-> bannerPromises[i].returned[1],
      aspectRatio |-> ConfiguredOrder[i],
      name |-> bannerFormats[i].name ]
RECURSIVE BannersOfOutcomes(_)
BannersOfOutcomes(i) ==
    IF i = 0 THEN <<>>
    ELSE IF bannerPromises[i].status = "fulfilled"
         THEN Append(BannersOfOutcomes(i - 1), BannerOfOutcome(i))
         ELSE BannersOfOutcomes(i - 1)
ErrorOfOutcomes ==
    IF Cardinality(WithStatus("fulfilled")) < 5
    THEN Some(ExpectedSummary[Cardinality(WithStatus("fulfilled")) + 1])
    ELSE Null

\* An input action has run.
InputAction(name) == lastOp' = name /\ edits' = edits + 1

\* C20: updateDescription, updateUrl and selectTemplate change their own
\* signal and nothing else, whether a round is in progress or not: not
\* isLoading, error or generatedBanners, nor the prompts dispatched or the
\* promises of the round; and when the round ends its generatedBanners and
\* error are those its outcomes determine, whatever the inputs have become.
C20_InputsLeaveTheRoundAlone ==
    [][ /\ InputAction("updateDescription") =>
              UNCHANGED << productUrl, selectedTemplate, generatedBanners, isLoading,
                           error, locals, inFlight >>
        /\ InputAction("updateUrl") =>
              UNCHANGED << productDescription, selectedTemplate, generatedBanners,
                           isLoading, error, locals, inFlight >>
        /\ InputAction("selectTemplate") =>
              UNCHANGED << productDescription, productUrl, generatedBanners, isLoading,
                           error, locals, inFlight >>
        /\ edits' # edits =>
              \E name \in {"updateDescription", "updateUrl", "selectTemplate"} :
                  InputAction(name)
        /\ JoinedRoundEnds =>
              /\ generatedBanners' = BannersOfOutcomes(5)
              /\ error' = ErrorOfOutcomes
      ]_vars

\* C20 witness: the description has just been emptied while a round is
\* waiting, some of its calls settled; the prompts of the round still carry
\* the description of its acceptance.
C20_Witness ==
    /\ lastOp = "updateDescription"
    /\ isLoading
    /\ pc = "await"
    /\ productDescription = <<>>
    /\ WithStatus("fulfilled") # {}
    /\ WithStatus("pending") # {}
    /\ \A i \in 1..5 : bannerPromises[i].prompt.base.description = InitialDescription

====
